---- MODULE Spec2Model ----
(***************************************************************************)
(* The sharded key-value store of src/10.Sharpness_Value_using_dp.c:       *)
(* kv_shards, set_key / get_key / delete_key, persist_to_disk,             *)
(* load_from_disk, background_persistence, replicate_to_followers and the  *)
(* part of http_handler and main that calls them.                          *)
(*                                                                         *)
(* Strings are sequences of byte values.  The snapshot file is the         *)
(* sequence of whitespace-separated tokens that fscanf("%s %s") sees.      *)
(* Threads advance one step at a time; a step is a maximal piece of code   *)
(* that contains at most one lock acquisition.                             *)
(***************************************************************************)
EXTENDS Integers, Sequences, FiniteSets, TLC

(***************************************************************************)
(* Program constants.  SHARD_COUNT is the source's value; the three sizes  *)
(* are scaled down (source: 100, 50, 100) so that a full shard and a full  *)
(* buffer are reachable.                                                   *)
(***************************************************************************)
SHARD_COUNT == 3
MAX_KEYS == 2
MAX_KEY_LENGTH == 2
MAX_VALUE_LENGTH == 2

\* Size of a stdio buffer, in tokens (fopen's default buffer, one block).
STDIO_BUF == 3

\* Bound of the model: of the audit log and of the calls made to the
\* follower, both append-only and never read by the program, the state keeps
\* the last LogWindow entries.
LogWindow == 1

\* Bound of the model: the process is started again at most MaxRestarts times.
MaxRestarts == 1

Shards == 0 .. (SHARD_COUNT - 1)
Slots == 0 .. (MAX_KEYS - 1)

(***************************************************************************)
(* Strings                                                                 *)
(***************************************************************************)
\* Keys and values the HTTP handler passes on: sscanf("/set/%49[^/]/%99s")
\* delivers non-empty strings that fit the buffers.
HttpKeys == {<<97>>, <<100>>, <<103>>, <<98>>}
HttpValues == {<<120>>, <<121>>}

\* Strings that do not fit key[MAX_KEY_LENGTH] / value[MAX_VALUE_LENGTH].
LongKeys == {<<97, 97, 97>>}
LongValues == {<<120, 120, 120>>}

\* Values that are no string: the null pointer, the content of an array that
\* was never written, the result of a read that raced with a write, and (in
\* `written`) the mark a delete_key leaves.
NULL == <<-1>>
UNINIT == <<-2>>
TORN == <<-3>>
DELETED == <<-4>>
\* A run of NUL bytes in the file.
HOLE == <<0>>

\* MHD_HTTP_OK, MHD_HTTP_NOT_FOUND
HTTP_OK == 200
HTTP_NOT_FOUND == 404

\* strlen(s) + 1 <= sizeof buffer
FitsKey(k) == Len(k) < MAX_KEY_LENGTH
FitsValue(v) == Len(v) < MAX_VALUE_LENGTH

\* A byte as the C type char (signed).
AsChar(b) == IF b >= 128 THEN b - 256 ELSE b

\* The C operator %: the remainder has the sign of the dividend.
CRem(a, b) == IF a >= 0 THEN a % b ELSE -((-a) % b)

RECURSIVE HashFrom(_, _, _)
HashFrom(hash, key, i) ==
    IF i > Len(key) THEN hash
    ELSE HashFrom(CRem(hash * 31 + AsChar(key[i]), SHARD_COUNT), key, i + 1)

get_shard_index(key) == HashFrom(0, key, 1)

\* The same loop in a build whose char is unsigned.
RECURSIVE UHashFrom(_, _, _)
UHashFrom(hash, key, i) ==
    IF i > Len(key) THEN hash
    ELSE UHashFrom(CRem(hash * 31 + key[i], SHARD_COUNT), key, i + 1)

\* What get_shard_index returns for a key of any bytes: the signedness of
\* char is the build's choice.
ShardIndexOf(key) == {get_shard_index(key), UHashFrom(0, key, 1)}

\* Keys of one or two bytes, with bytes below and above 0x80.
Bytes == {97, 127, 128, 255}
ByteKeys == {<<a>> : a \in Bytes} \cup {<<a, b>> : a \in Bytes, b \in Bytes}

Min(S) == CHOOSE x \in S : \A y \in S : x <= y
Max(S) == CHOOSE x \in S : \A y \in S : x >= y

(***************************************************************************)
(* KVEntry, KVShard                                                        *)
(***************************************************************************)
KVEntry(k, v, a) == [key |-> k, value |-> v, is_active |-> a]

\* Static storage is zero-initialised.
ZeroStore == [s \in Shards |-> [i \in Slots |-> KVEntry(<<>>, <<>>, 0)]]

\* set_key's loop: the first slot that is inactive or whose key compares equal.
SetIndex(st, s, key) ==
    LET c == {i \in Slots : st[s][i].is_active = 0 \/ st[s][i].key = key}
    IN  IF c = {} THEN -1 ELSE Min(c)

\* get_key's and delete_key's loop: the first active slot with the key.
FindActive(st, s, key) ==
    LET c == {i \in Slots : st[s][i].is_active # 0 /\ st[s][i].key = key}
    IN  IF c = {} THEN -1 ELSE Min(c)

\* A slot write that copies the key and sets the flag but leaves the value
\* bytes as they were: the store C1 would not hold for.
WriteSlotNoValue(st, s, i, key, value) ==
    [st EXCEPT ![s][i] = KVEntry(key, st[s][i].value, 1)]

\* The two strcpy calls and the flag assignment of set_key, for strings that fit.
WriteSlot(st, s, i, key, value) ==
    [st EXCEPT ![s][i] = KVEntry(key, value, 1)]

\* What a read of value[] as a C string finds after strcpy(value, v): v when
\* it fits; otherwise the array is full and has no terminator, and the read
\* runs on into is_active, which set_key then sets to 1 (an int: its first
\* byte is 0 or 1 with the byte order).
ValueRead(v) ==
    IF FitsValue(v) THEN {v}
    ELSE {SubSeq(v, 1, MAX_VALUE_LENGTH) \o tail : tail \in {<<>>, <<1>>}}

\* What a read of key[] as a C string finds after strcpy(key, k) and
\* strcpy(value, v): k when it fits; otherwise the array is full and has no
\* terminator, and the read runs on into value[].
KeyRead(k, vread) ==
    IF FitsKey(k) THEN k ELSE SubSeq(k, 1, MAX_KEY_LENGTH) \o vread

\* The stores that the two strcpy calls and the flag assignment of set_key
\* can leave when a string does not fit its array (undefined behaviour; the
\* writes stay inside the entry for strings of at most MAX_KEY_LENGTH + 1 and
\* MAX_VALUE_LENGTH + 1 characters).  The other outcome is SetAbort.
SpillSlot(st, s, i, key, value) ==
    {[st EXCEPT ![s][i] = KVEntry(KeyRead(key, vr), vr, 1)] : vr \in ValueRead(value)}

\* A delete that compacts: the entries after the deleted one move down a
\* slot and the last slot is zeroed.
ClearSlotCompact(st, s, i) ==
    [st EXCEPT ![s] = [j \in Slots |->
        IF j < i THEN st[s][j]
        ELSE IF j + 1 \in Slots THEN st[s][j + 1]
        ELSE KVEntry(<<>>, <<>>, 0)]]

\* delete_key's assignment.
ClearSlot(st, s, i) == [st EXCEPT ![s][i].is_active = 0]

\* What a caller of get_key reads through the returned pointer.
get_key(st, key) ==
    LET s == get_shard_index(key)
        i == FindActive(st, s, key)
    IN  IF i = -1 THEN NULL ELSE st[s][i].value

(***************************************************************************)
(* The snapshot file                                                       *)
(***************************************************************************)
\* fprintf("%s %s\n"): an empty string leaves no token.
Tok(s) == IF s = <<>> THEN <<>> ELSE <<s>>

RECURSIVE ShardTokensFrom(_, _, _)
ShardTokensFrom(st, s, j) ==
    IF j >= MAX_KEYS THEN <<>>
    ELSE (IF st[s][j].is_active # 0
          THEN Tok(st[s][j].key) \o Tok(st[s][j].value)
          ELSE <<>>) \o ShardTokensFrom(st, s, j + 1)

\* An inner loop that does not test is_active: it writes the tombstones too.
RECURSIVE AllTokensFrom(_, _, _)
AllTokensFrom(st, s, j) ==
    IF j >= MAX_KEYS THEN <<>>
    ELSE Tok(st[s][j].key) \o Tok(st[s][j].value) \o AllTokensFrom(st, s, j + 1)

ShardTokensAll(st, s) == AllTokensFrom(st, s, 0)

\* The inner loop of persist_to_disk for shard s.
ShardTokens(st, s) == ShardTokensFrom(st, s, 0)

RECURSIVE SnapshotFrom(_, _)
SnapshotFrom(st, s) ==
    IF s >= SHARD_COUNT THEN <<>> ELSE ShardTokens(st, s) \o SnapshotFrom(st, s + 1)

\* What one undisturbed run of persist_to_disk writes.
Snapshot(st) == SnapshotFrom(st, 0)

\* write(2) of toks at offset off; a gap below off reads as NUL bytes.
WriteAt(f, off, toks) ==
    LET n == Max({Len(f), off + Len(toks)})
    IN  [p \in 1 .. n |->
            IF p > off /\ p <= off + Len(toks) THEN toks[p - off]
            ELSE IF p <= Len(f) THEN f[p]
            ELSE HOLE]

(***************************************************************************)
(* Threads and state                                                       *)
(***************************************************************************)
MAIN == "main"
BG == "bg"
Workers == {"w1", "w2"}
Threads == {MAIN, BG} \cup Workers
NoThread == "none"

VARIABLES
    store,        \* kv_shards[s].store[i]
    lock,         \* owner of kv_shards[s].lock, or NoThread
    running,      \* volatile int running
    file,         \* tokens of kv_store.txt
    file_exists,  \* whether kv_store.txt exists
    writable,     \* whether fopen(kv_store.txt, "w") succeeds
    log,          \* keys of the last lines of kv_store.log
    repl,         \* the last curl calls issued to the follower, <<key, value>>
    pc,           \* the next step of each thread
    arg,          \* arguments of the call a thread is executing
    ptr,          \* what get_key returned to the thread: <<s, i>> or NULL
    resp,         \* the outcome of the call, until http_handler has answered
    pi,           \* persist_to_disk's loop variable i
    wf,           \* persist_to_disk's FILE: fd offset and unflushed buffer
    rd,           \* load_from_disk's FILE: buffer, fd offset, EOF indicator
    ld,           \* load_from_disk's arrays key and value
    written,      \* per key: value of the last storing set_key, NULL after delete_key
    client,       \* per key: what the HTTP clients last wrote, NULL after DELETE
    gv,           \* per thread in get_key: the value a preceding set left for it
    seen,         \* per thread in get_key: the value found while the lock was held
    hist          \* facts about the run so far (see Restart, Start, Call)

mem == <<store, lock, running>>
disk == <<file, file_exists, writable>>
ext == <<log, repl>>
thr == <<pc, arg, ptr, resp, pi, wf>>
boot == <<rd, ld>>
ghost == <<written, client, gv, seen, hist>>
vars == <<store, lock, running, file, file_exists, writable, log, repl,
          pc, arg, ptr, resp, pi, wf, rd, ld, written, client, gv, seen, hist>>

AllKeys == HttpKeys \cup LongKeys
NoArg == [op |-> "none", key |-> <<>>, value |-> <<>>]
NoResp == [op |-> "none", key |-> <<>>, status |-> 0, out |-> NULL, stored |-> FALSE,
           expect |-> NULL, seen |-> NULL, repl |-> "none", index |-> 0]
NoFile == [off |-> 0, buf |-> <<>>]
NoReader == [buf |-> <<>>, off |-> 0, eof |-> FALSE]
NoHist == [dels |-> FALSE, snap_ok |-> FALSE, fresh |-> FALSE, loaded |-> FALSE, boots |-> 0,
           snapped |-> FALSE, lines |-> <<>>, open_failed |-> FALSE]

\* The process image at exec: static storage zeroed, only main exists.
Volatile ==
    /\ store = ZeroStore
    /\ lock = [s \in Shards |-> NoThread]
    /\ running = 1
    /\ pc = [t \in Threads |-> IF t = MAIN THEN "init" ELSE "none"]
    /\ arg = [t \in Threads |-> NoArg]
    /\ ptr = [t \in Threads |-> NULL]
    /\ resp = [t \in Threads |-> NoResp]
    /\ pi = [t \in Threads |-> 0]
    /\ wf = [t \in Threads |-> NoFile]
    /\ rd = NoReader
    /\ ld = [key |-> UNINIT, value |-> UNINIT]
    /\ written = [k \in AllKeys |-> NULL]
    /\ gv = [t \in Threads |-> NULL]
    /\ seen = [t \in Threads |-> NULL]

Init ==
    /\ Volatile
    /\ file = <<>>
    /\ file_exists = FALSE
    /\ writable = TRUE
    /\ log = <<>>
    /\ repl = <<>>
    /\ client = [k \in AllKeys |-> NULL]
    /\ hist = NoHist

\* Contents of kv_store.txt found at the first start, as lines of tokens: a
\* line "key value" is well formed, a line with one token is not.
InputFiles ==
    { << <<(<<97>>), (<<120>>)>> >>,
      << <<(<<97>>)>>, <<(<<98>>), (<<121>>)>> >>,
      << <<(<<97>>), (<<120>>)>>, <<(<<98>>)>> >> }

\* The tokens of a file: fscanf's %s takes a newline for white space like
\* any other.
RECURSIVE Flatten(_)
Flatten(L) == IF L = <<>> THEN <<>> ELSE Head(L) \o Flatten(Tail(L))

\* The state at the first start of a process that finds a kv_store.txt it
\* has not written itself.
InitLoad ==
    /\ Volatile
    /\ \E L \in InputFiles :
         /\ file = Flatten(L)
         /\ hist = [NoHist EXCEPT !.lines = L]
    /\ file_exists = TRUE
    /\ writable = TRUE
    /\ log = <<>>
    /\ repl = <<>>
    /\ client = [k \in AllKeys |-> NULL]

\* An append to a stream of which the last LogWindow entries are kept.
Emit(q, e) ==
    LET all == Append(q, e)
    IN  IF Len(all) <= LogWindow THEN all
        ELSE SubSeq(all, Len(all) - LogWindow + 1, Len(all))

(***************************************************************************)
(* stdio                                                                   *)
(***************************************************************************)
\* A token as the C string that %s stores: NUL bytes end it at once.
CStr(tok) == IF tok = HOLE THEN <<>> ELSE tok

\* One %s conversion: take a token from the buffer, refilling it with one
\* read(2) at the descriptor's offset of the file as it is now.  The EOF
\* indicator is sticky.
ReadTok(r, f) ==
    IF r.buf # <<>>
    THEN [ok |-> TRUE, tok |-> Head(r.buf), r |-> [r EXCEPT !.buf = Tail(r.buf)]]
    ELSE IF r.eof
    THEN [ok |-> FALSE, tok |-> <<>>, r |-> r]
    ELSE LET chunk == SubSeq(f, r.off + 1, Min({Len(f), r.off + STDIO_BUF}))
         IN  IF chunk = <<>>
             THEN [ok |-> FALSE, tok |-> <<>>, r |-> [r EXCEPT !.eof = TRUE]]
             ELSE [ok |-> TRUE, tok |-> Head(chunk),
                   r |-> [buf |-> Tail(chunk), off |-> r.off + Len(chunk), eof |-> FALSE]]

\* fscanf(file, "%s %s", key, value): n = -1 is EOF.
Fscanf(r, f, loc) ==
    LET a == ReadTok(r, f)
        b == ReadTok(a.r, f)
    IN  IF ~a.ok THEN [n |-> -1, loc |-> loc, r |-> a.r]
        ELSE IF ~b.ok THEN [n |-> 1, loc |-> [loc EXCEPT !.key = CStr(a.tok)], r |-> b.r]
        ELSE [n |-> 2, loc |-> [key |-> CStr(a.tok), value |-> CStr(b.tok)], r |-> b.r]

\* fprintf into a FILE opened for writing: the buffer is written out, one
\* buffer at a time, whenever the new output does not fit.
RECURSIVE Fprintf(_, _)
Fprintf(fw, toks) ==
    LET all == fw.w.buf \o toks
    IN  IF Len(all) <= STDIO_BUF
        THEN [f |-> fw.f, w |-> [fw.w EXCEPT !.buf = all]]
        ELSE Fprintf([f |-> WriteAt(fw.f, fw.w.off, SubSeq(all, 1, STDIO_BUF)),
                      w |-> [off |-> fw.w.off + STDIO_BUF, buf |-> <<>>]],
                     SubSeq(all, STDIO_BUF + 1, Len(all)))

\* fclose of a FILE opened for writing: the rest of the buffer is written out.
Fclose(f, w) == WriteAt(f, w.off, w.buf)

(***************************************************************************)
(* main, init_kv_store, load_from_disk                                     *)
(***************************************************************************)
Serving == pc[MAIN] = "getchar"

\* Bytes an uninitialised array may hold.
Garbage == {<<>>} \cup HttpValues

\* A load_from_disk without the test of fopen's result: it goes on to fscanf
\* when there is no file.
LoadOpenNoCheck ==
    /\ pc[MAIN] = "init"
    /\ pc' = [pc EXCEPT ![MAIN] = "ld_scan"]
    /\ rd' = NoReader
    /\ UNCHANGED <<mem, disk, ext, arg, ptr, resp, pi, wf, ld, ghost>>

\* An init_kv_store that creates the persistence thread before it loads.
LoadOpenThreadFirst ==
    /\ pc[MAIN] = "init"
    /\ pc' = [pc EXCEPT ![MAIN] = IF file_exists THEN "ld_scan" ELSE "start",
                         ![BG] = "bg_check"]
    /\ rd' = NoReader
    /\ UNCHANGED <<mem, disk, ext, arg, ptr, resp, pi, wf, ld, ghost>>

\* init_kv_store up to load_from_disk's fopen.
LoadOpen ==
    /\ pc[MAIN] = "init"
    /\ pc' = [pc EXCEPT ![MAIN] = IF file_exists THEN "ld_scan" ELSE "start"]
    /\ rd' = NoReader
    /\ UNCHANGED <<mem, disk, ext, arg, ptr, resp, pi, wf, ld, ghost>>

\* One evaluation of the while condition of load_from_disk, and the call of
\* set_key or the fclose that follows it.
LoadScan ==
    /\ pc[MAIN] = "ld_scan"
    /\ LET sc == Fscanf(rd, file, ld)
       IN  /\ rd' = sc.r
           /\ IF sc.n = -1
              THEN /\ pc' = [pc EXCEPT ![MAIN] = "start"]
                   /\ UNCHANGED <<ld, arg>>
              ELSE /\ \E g \in Garbage :
                        /\ sc.loc.value = UNINIT \/ g = <<>>
                        /\ LET v == IF sc.loc.value = UNINIT THEN g ELSE sc.loc.value
                           IN  /\ ld' = [sc.loc EXCEPT !.value = v]
                               /\ arg' = [arg EXCEPT ![MAIN] =
                                            [op |-> "set", key |-> sc.loc.key, value |-> v]]
                   /\ pc' = [pc EXCEPT ![MAIN] = "set_lock"]
    /\ UNCHANGED <<mem, disk, ext, ptr, resp, pi, wf, ghost>>

\* pthread_create of the persistence thread, then start_server.
Start ==
    /\ pc[MAIN] = "start"
    /\ pc' = [t \in Threads |->
                IF t = MAIN THEN "getchar" ELSE IF t = BG THEN "bg_check" ELSE "idle"]
    /\ hist' = [hist EXCEPT !.fresh = TRUE, !.loaded = TRUE]
    /\ UNCHANGED <<mem, disk, ext, arg, ptr, resp, pi, wf, boot, written, client, gv, seen>>

\* getchar returns; MHD_stop_daemon waits for the connection threads;
\* running = 0.
Stop ==
    /\ pc[MAIN] = "getchar"
    /\ \A t \in Workers : pc[t] = "idle"
    /\ pc' = [t \in Threads |->
                IF t = MAIN THEN "join" ELSE IF t = BG THEN pc[BG] ELSE "none"]
    /\ running' = 0
    /\ UNCHANGED <<store, lock, disk, ext, arg, ptr, resp, pi, wf, boot, ghost>>

\* pthread_join returns, main returns.
Join ==
    /\ pc[MAIN] = "join"
    /\ pc[BG] = "bg_done"
    /\ pc' = [pc EXCEPT ![MAIN] = "exit"]
    /\ UNCHANGED <<mem, disk, ext, arg, ptr, resp, pi, wf, boot, ghost>>

\* The process ends (it is killed at any point, or has exited) and is started
\* again: memory is lost, the files and the follower stay.
Restart ==
    /\ hist.boots < MaxRestarts
    /\ store' = ZeroStore
    /\ lock' = [s \in Shards |-> NoThread]
    /\ running' = 1
    /\ pc' = [t \in Threads |-> IF t = MAIN THEN "init" ELSE "none"]
    /\ arg' = [t \in Threads |-> NoArg]
    /\ ptr' = [t \in Threads |-> NULL]
    /\ resp' = [t \in Threads |-> NoResp]
    /\ pi' = [t \in Threads |-> 0]
    /\ wf' = [t \in Threads |-> NoFile]
    /\ rd' = NoReader
    /\ ld' = [key |-> UNINIT, value |-> UNINIT]
    /\ written' = [k \in AllKeys |-> NULL]
    /\ gv' = [t \in Threads |-> NULL]
    /\ seen' = [t \in Threads |-> NULL]
    /\ hist' = [hist EXCEPT
                  !.fresh = FALSE, !.loaded = FALSE, !.boots = hist.boots + 1,
                  !.snap_ok = /\ file_exists
                              /\ file = Snapshot(store)
                              /\ \A k \in HttpKeys : get_key(store, k) = client[k]]
    /\ UNCHANGED <<disk, ext, client>>

(***************************************************************************)
(* background_persistence                                                  *)
(***************************************************************************)
\* while (running)
BgCheck ==
    /\ pc[BG] = "bg_check"
    /\ pc' = [pc EXCEPT ![BG] = IF running # 0 THEN "bg_sleep" ELSE "bg_done"]
    /\ UNCHANGED <<mem, disk, ext, arg, ptr, resp, pi, wf, boot, ghost>>

\* sleep(10) returns.
BgSleep ==
    /\ pc[BG] = "bg_sleep"
    /\ pc' = [pc EXCEPT ![BG] = "p_open"]
    /\ UNCHANGED <<mem, disk, ext, arg, ptr, resp, pi, wf, boot, ghost>>

(***************************************************************************)
(* persist_to_disk, executed by thread t (from set_key or from the         *)
(* persistence thread)                                                     *)
(***************************************************************************)
AfterPersist(t) == IF t = BG THEN "bg_check" ELSE "replicate"
AfterSet(t) == IF t = MAIN THEN "ld_scan" ELSE "respond"

\* A persist_to_disk that ends the process when fopen fails.
PersistOpenExit(t) ==
    /\ pc[t] = "p_open"
    /\ IF writable
       THEN /\ file' = <<>>
            /\ file_exists' = TRUE
            /\ wf' = [wf EXCEPT ![t] = NoFile]
            /\ pi' = [pi EXCEPT ![t] = 0]
            /\ pc' = [pc EXCEPT ![t] = "p_lock"]
            /\ UNCHANGED hist
       ELSE /\ pc' = [u \in Threads |-> IF u = MAIN THEN "aborted" ELSE "none"]
            /\ hist' = [hist EXCEPT !.open_failed = TRUE]
            /\ UNCHANGED <<file, file_exists, wf, pi>>
    /\ UNCHANGED <<mem, writable, ext, arg, ptr, resp, boot, written, client, gv, seen>>

\* fopen(PERSISTENCE_FILE, "w"): truncates the file; if (!file) return.
PersistOpen(t) ==
    /\ pc[t] = "p_open"
    /\ IF writable
       THEN /\ file' = <<>>
            /\ file_exists' = TRUE
            /\ wf' = [wf EXCEPT ![t] = NoFile]
            /\ pi' = [pi EXCEPT ![t] = 0]
            /\ pc' = [pc EXCEPT ![t] = "p_lock"]
            /\ UNCHANGED hist
       ELSE /\ pc' = [pc EXCEPT ![t] = AfterPersist(t)]
            /\ hist' = [hist EXCEPT !.open_failed = TRUE]
            /\ UNCHANGED <<file, file_exists, wf, pi>>
    /\ UNCHANGED <<mem, writable, ext, arg, ptr, resp, boot, written, client, gv, seen>>

\* The environment: kv_store.txt stops or starts being openable for
\* writing (permissions, a full or read-only file system).
Chmod ==
    /\ writable' = ~writable
    /\ UNCHANGED <<mem, file, file_exists, ext, thr, boot, ghost>>

\* pthread_mutex_lock(&kv_shards[i].lock)
PersistLock(t) ==
    /\ pc[t] = "p_lock"
    /\ lock[pi[t]] = NoThread
    /\ lock' = [lock EXCEPT ![pi[t]] = t]
    /\ pc' = [pc EXCEPT ![t] = "p_write"]
    /\ UNCHANGED <<store, running, disk, ext, arg, ptr, resp, pi, wf, boot, ghost>>

\* A persist_to_disk that keeps the lock of each shard it has written.
PersistWriteKeepLock(t) ==
    /\ pc[t] = "p_write"
    /\ LET out == Fprintf([f |-> file, w |-> wf[t]], ShardTokens(store, pi[t]))
       IN  /\ file' = out.f
           /\ wf' = [wf EXCEPT ![t] = out.w]
    /\ pi' = [pi EXCEPT ![t] = pi[t] + 1]
    /\ pc' = [pc EXCEPT ![t] = IF pi[t] + 1 < SHARD_COUNT THEN "p_lock" ELSE "p_close"]
    /\ UNCHANGED <<store, lock, running, file_exists, writable, ext, arg, ptr, resp, boot, ghost>>

\* The inner loop over the slots of shard i, the unlock and i++.
PersistWrite(t) ==
    /\ pc[t] = "p_write"
    /\ LET out == Fprintf([f |-> file, w |-> wf[t]], ShardTokens(store, pi[t]))
       IN  /\ file' = out.f
           /\ wf' = [wf EXCEPT ![t] = out.w]
    /\ lock' = [lock EXCEPT ![pi[t]] = NoThread]
    /\ pi' = [pi EXCEPT ![t] = pi[t] + 1]
    /\ pc' = [pc EXCEPT ![t] = IF pi[t] + 1 < SHARD_COUNT THEN "p_lock" ELSE "p_close"]
    /\ UNCHANGED <<store, running, file_exists, writable, ext, arg, ptr, resp, boot, ghost>>

\* fclose(file)
PersistClose(t) ==
    /\ pc[t] = "p_close"
    /\ file' = Fclose(file, wf[t])
    /\ wf' = [wf EXCEPT ![t] = NoFile]
    /\ pc' = [pc EXCEPT ![t] = AfterPersist(t)]
    /\ hist' = [hist EXCEPT !.snapped = TRUE]
    /\ UNCHANGED <<mem, file_exists, writable, ext, arg, ptr, resp, pi, boot,
                   written, client, gv, seen>>

(***************************************************************************)
(* http_handler and set_key                                                *)
(***************************************************************************)
\* A set or delete of key k that has been called and has not yet changed the shard.
Pending(u, k) ==
    /\ pc[u] \in {"set_lock", "set_mutate", "del_lock", "del_scan"}
    /\ arg[u].key = k

\* A call of set_key or delete_key on k ends what an earlier set left for a
\* get_key on k that is under way.
Intervene(k) ==
    [u \in Threads |->
        IF pc[u] \in {"get_lock", "get_scan", "get_deref"} /\ arg[u].key = k
        THEN NULL ELSE gv[u]]

\* POST /set/<key>/<value>: http_handler calls set_key(key, value).
CallSet(t, k, v) ==
    /\ Serving
    /\ pc[t] = "idle"
    /\ arg' = [arg EXCEPT ![t] = [op |-> "set", key |-> k, value |-> v]]
    /\ pc' = [pc EXCEPT ![t] = "set_lock"]
    /\ gv' = Intervene(k)
    /\ hist' = [hist EXCEPT !.fresh = FALSE]
    /\ UNCHANGED <<mem, disk, ext, ptr, resp, pi, wf, boot, written, client, seen>>

\* A set_key that goes on without waiting for the lock to be free.
SetLockNoWait(t) ==
    /\ pc[t] = "set_lock"
    /\ lock' = [lock EXCEPT ![get_shard_index(arg[t].key)] = t]
    /\ pc' = [pc EXCEPT ![t] = "set_mutate"]
    /\ UNCHANGED <<store, running, disk, ext, arg, ptr, resp, pi, wf, boot, ghost>>

\* get_shard_index and pthread_mutex_lock
SetLock(t) ==
    /\ pc[t] = "set_lock"
    /\ LET s == get_shard_index(arg[t].key)
       IN  /\ lock[s] = NoThread
           /\ lock' = [lock EXCEPT ![s] = t]
    /\ pc' = [pc EXCEPT ![t] = "set_mutate"]
    /\ UNCHANGED <<store, running, disk, ext, arg, ptr, resp, pi, wf, boot, ghost>>

\* What set_key returns to: http_handler answers "set successfully" whatever
\* happened; load_from_disk goes on with its loop.
SetReturn(t, stored) ==
    IF t = MAIN THEN resp
    ELSE [resp EXCEPT ![t] = [op |-> "set", key |-> arg[t].key, status |-> HTTP_OK,
                              out |-> <<>>, stored |-> stored, expect |-> NULL,
                              seen |-> NULL, repl |-> "none", index |-> 0]]

\* The for loop of set_key up to log_operation; when no slot is found, the
\* unlock after the loop and the return.
SetMutate(t) ==
    /\ pc[t] = "set_mutate"
    /\ LET k == arg[t].key
           s == get_shard_index(k)
           i == SetIndex(store, s, k)
       IN  IF i = -1
           THEN /\ lock' = [lock EXCEPT ![s] = NoThread]
                /\ pc' = [pc EXCEPT ![t] = AfterSet(t)]
                /\ resp' = SetReturn(t, FALSE)
                /\ UNCHANGED <<store, written, client, gv>>
           ELSE /\ IF FitsKey(k) /\ FitsValue(arg[t].value)
                   THEN store' = WriteSlot(store, s, i, k, arg[t].value)
                   ELSE store' \in SpillSlot(store, s, i, k, arg[t].value)
                /\ pc' = [pc EXCEPT ![t] = "set_log"]
                /\ written' = IF k \in AllKeys
                              THEN [written EXCEPT ![k] = arg[t].value] ELSE written
                /\ client' = IF t \in Workers
                             THEN [client EXCEPT ![k] = arg[t].value] ELSE client
                /\ gv' = Intervene(k)
                /\ UNCHANGED <<lock, resp>>
    /\ UNCHANGED <<running, disk, ext, arg, ptr, pi, wf, boot, seen, hist>>

\* A strcpy of set_key that writes past the end of its array is detected
\* (fortified libc) and the process is aborted.
SetAbort(t) ==
    /\ pc[t] = "set_mutate"
    /\ ~(FitsKey(arg[t].key) /\ FitsValue(arg[t].value))
    /\ SetIndex(store, get_shard_index(arg[t].key), arg[t].key) # -1
    /\ pc' = [u \in Threads |-> IF u = MAIN THEN "aborted" ELSE "none"]
    /\ UNCHANGED <<mem, disk, ext, arg, ptr, resp, pi, wf, boot, ghost>>

\* A set_key that appends no audit entry when load_from_disk calls it.
SetLogNotOnLoad(t) ==
    /\ pc[t] = "set_log"
    /\ log' = IF t = MAIN THEN log ELSE Emit(log, arg[t].key)
    /\ lock' = [lock EXCEPT ![get_shard_index(arg[t].key)] = NoThread]
    /\ pc' = [pc EXCEPT ![t] = "p_open"]
    /\ UNCHANGED <<store, running, disk, repl, arg, ptr, resp, pi, wf, boot, ghost>>

\* A set_key that does not call log_operation.
SetLogSilent(t) ==
    /\ pc[t] = "set_log"
    /\ lock' = [lock EXCEPT ![get_shard_index(arg[t].key)] = NoThread]
    /\ pc' = [pc EXCEPT ![t] = "p_open"]
    /\ UNCHANGED <<store, running, disk, ext, arg, ptr, resp, pi, wf, boot, ghost>>

\* log_operation("SET", key) and pthread_mutex_unlock
SetLog(t) ==
    /\ pc[t] = "set_log"
    /\ log' = Emit(log, arg[t].key)
    /\ lock' = [lock EXCEPT ![get_shard_index(arg[t].key)] = NoThread]
    /\ pc' = [pc EXCEPT ![t] = "p_open"]
    /\ UNCHANGED <<store, running, disk, repl, arg, ptr, resp, pi, wf, boot, ghost>>

\* How the curl command that system() runs can end: the follower accepted the
\* request, or curl failed (connection refused, timeout, error status).
SystemStatus == {"ok", "failed"}

\* set_key's return after replicate_to_followers: the value of system() is
\* dropped; rc is kept with the outcome of the call for the properties only.
Replied(t, rc) ==
    IF t = MAIN THEN resp ELSE [SetReturn(t, TRUE) EXCEPT ![t].repl = rc]

\* A replicate_to_followers that undoes the write when the follower call
\* fails: what C11 excludes.
ReplicateRollback(t) ==
    /\ pc[t] = "replicate"
    /\ repl' = Emit(repl, <<arg[t].key, arg[t].value>>)
    /\ pc' = [pc EXCEPT ![t] = AfterSet(t)]
    /\ \E rc \in SystemStatus :
         /\ resp' = Replied(t, rc)
         /\ store' = IF rc = "failed"
                     THEN [st \in Shards |-> [i \in Slots |->
                             IF store[st][i].key = arg[t].key
                             THEN [store[st][i] EXCEPT !.is_active = 0]
                             ELSE store[st][i]]]
                     ELSE store
    /\ UNCHANGED <<lock, running, disk, log, arg, ptr, pi, wf, boot, ghost>>

\* replicate_to_followers(key, value) and the return of set_key
Replicate(t) ==
    /\ pc[t] = "replicate"
    /\ repl' = Emit(repl, <<arg[t].key, arg[t].value>>)
    /\ pc' = [pc EXCEPT ![t] = AfterSet(t)]
    /\ \E rc \in SystemStatus : resp' = Replied(t, rc)
    /\ UNCHANGED <<mem, disk, log, arg, ptr, pi, wf, boot, ghost>>

(***************************************************************************)
(* http_handler and get_key                                                *)
(***************************************************************************)
\* GET /get/<key>: http_handler calls get_key(key).
CallGet(t, k) ==
    /\ Serving
    /\ pc[t] = "idle"
    /\ arg' = [arg EXCEPT ![t] = [op |-> "get", key |-> k, value |-> <<>>]]
    /\ pc' = [pc EXCEPT ![t] = "get_lock"]
    /\ gv' = [gv EXCEPT ![t] =
                IF \E u \in Threads \ {t} : Pending(u, k) THEN NULL ELSE written[k]]
    /\ hist' = [hist EXCEPT !.fresh = FALSE]
    /\ UNCHANGED <<mem, disk, ext, ptr, resp, pi, wf, boot, written, client, seen>>

GetLock(t) ==
    /\ pc[t] = "get_lock"
    /\ LET s == get_shard_index(arg[t].key)
       IN  /\ lock[s] = NoThread
           /\ lock' = [lock EXCEPT ![s] = t]
    /\ pc' = [pc EXCEPT ![t] = "get_scan"]
    /\ UNCHANGED <<store, running, disk, ext, arg, ptr, resp, pi, wf, boot, ghost>>

\* The for loop of get_key, the unlock and the return of a pointer into the
\* shard (or NULL).
GetScan(t) ==
    /\ pc[t] = "get_scan"
    /\ LET s == get_shard_index(arg[t].key)
           i == FindActive(store, s, arg[t].key)
       IN  /\ ptr' = [ptr EXCEPT ![t] = IF i = -1 THEN NULL ELSE <<s, i>>]
           /\ seen' = [seen EXCEPT ![t] = IF i = -1 THEN NULL ELSE store[s][i].value]
           /\ lock' = [lock EXCEPT ![s] = NoThread]
    /\ pc' = [pc EXCEPT ![t] = "get_deref"]
    /\ UNCHANGED <<store, running, disk, ext, arg, resp, pi, wf, boot, written, client, gv, hist>>

\* A thread that is about to run the strcpy calls of set_key on the slot p
\* points to.
Writer(u, p) ==
    /\ pc[u] = "set_mutate"
    /\ get_shard_index(arg[u].key) = p[1]
    /\ SetIndex(store, p[1], arg[u].key) = p[2]

\* What the snprintf of http_handler can read through the pointer: the
\* value in the slot now; when a set_key is writing the slot at the same
\* time (a data race), also the value being written or a mix of both.
Readable(t) ==
    IF ptr[t] = NULL THEN {NULL}
    ELSE {store[ptr[t][1]][ptr[t][2]].value}
         \cup UNION {{arg[u].value, TORN} : u \in {w \in Threads \ {t} : Writer(w, ptr[t])}}

\* if (value) snprintf(..., value) else "Key not found"
GetDeref(t) ==
    /\ pc[t] = "get_deref"
    /\ \E out \in Readable(t) :
         resp' = [resp EXCEPT ![t] =
                    [op |-> "get", key |-> arg[t].key,
                     status |-> IF ptr[t] = NULL THEN HTTP_NOT_FOUND ELSE HTTP_OK,
                     out |-> out, stored |-> FALSE, expect |-> gv[t], seen |-> seen[t],
                     repl |-> "none", index |-> 0]]
    /\ pc' = [pc EXCEPT ![t] = "respond"]
    /\ UNCHANGED <<mem, disk, ext, arg, ptr, pi, wf, boot, ghost>>

(***************************************************************************)
(* http_handler and delete_key                                             *)
(***************************************************************************)
\* DELETE /delete/<key>: http_handler calls delete_key(key).
CallDelete(t, k) ==
    /\ Serving
    /\ pc[t] = "idle"
    /\ arg' = [arg EXCEPT ![t] = [op |-> "delete", key |-> k, value |-> <<>>]]
    /\ pc' = [pc EXCEPT ![t] = "del_lock"]
    /\ gv' = Intervene(k)
    /\ hist' = [hist EXCEPT !.fresh = FALSE]
    /\ UNCHANGED <<mem, disk, ext, ptr, resp, pi, wf, boot, written, client, seen>>

DeleteLock(t) ==
    /\ pc[t] = "del_lock"
    /\ LET s == get_shard_index(arg[t].key)
       IN  /\ lock[s] = NoThread
           /\ lock' = [lock EXCEPT ![s] = t]
    /\ pc' = [pc EXCEPT ![t] = "del_scan"]
    /\ UNCHANGED <<store, running, disk, ext, arg, ptr, resp, pi, wf, boot, ghost>>

\* A delete_key that appends an audit entry, as set_key does.
DeleteScanLogged(t) ==
    /\ pc[t] = "del_scan"
    /\ LET k == arg[t].key
           s == get_shard_index(k)
           i == FindActive(store, s, k)
       IN  /\ store' = IF i = -1 THEN store ELSE ClearSlot(store, s, i)
           /\ lock' = [lock EXCEPT ![s] = NoThread]
           /\ written' = [written EXCEPT ![k] = DELETED]
           /\ client' = [client EXCEPT ![k] = NULL]
           /\ gv' = Intervene(k)
           /\ resp' = [resp EXCEPT ![t] = [op |-> "delete", key |-> k, status |-> HTTP_OK,
                                           out |-> <<>>, stored |-> i # -1,
                                           expect |-> written[k], seen |-> NULL,
                                           repl |-> "none", index |-> 0]]
    /\ hist' = [hist EXCEPT !.dels = TRUE]
    /\ pc' = [pc EXCEPT ![t] = "respond"]
    /\ log' = Emit(log, arg[t].key)
    /\ UNCHANGED <<running, disk, repl, arg, ptr, pi, wf, boot, seen>>

\* The for loop of delete_key, the unlock and the return; http_handler
\* answers "deleted".
DeleteScan(t) ==
    /\ pc[t] = "del_scan"
    /\ LET k == arg[t].key
           s == get_shard_index(k)
           i == FindActive(store, s, k)
       IN  /\ store' = IF i = -1 THEN store ELSE ClearSlot(store, s, i)
           /\ lock' = [lock EXCEPT ![s] = NoThread]
           /\ written' = [written EXCEPT ![k] = DELETED]
           /\ client' = [client EXCEPT ![k] = NULL]
           /\ gv' = Intervene(k)
           /\ resp' = [resp EXCEPT ![t] = [op |-> "delete", key |-> k, status |-> HTTP_OK,
                                           out |-> <<>>, stored |-> i # -1,
                                           expect |-> written[k], seen |-> NULL,
                                           repl |-> "none", index |-> 0]]
    /\ hist' = [hist EXCEPT !.dels = TRUE]
    /\ pc' = [pc EXCEPT ![t] = "respond"]
    /\ UNCHANGED <<running, disk, ext, arg, ptr, pi, wf, boot, seen>>

\* MHD_create_response_from_buffer, MHD_queue_response and the return of
\* http_handler.
Respond(t) ==
    /\ pc[t] = "respond"
    /\ pc' = [pc EXCEPT ![t] = "idle"]
    /\ resp' = [resp EXCEPT ![t] = NoResp]
    /\ arg' = [arg EXCEPT ![t] = NoArg]
    /\ ptr' = [ptr EXCEPT ![t] = NULL]
    /\ gv' = [gv EXCEPT ![t] = NULL]
    /\ seen' = [seen EXCEPT ![t] = NULL]
    /\ UNCHANGED <<mem, disk, ext, pi, wf, boot, written, client, hist>>

(***************************************************************************)
(* get_shard_index on its own                                              *)
(***************************************************************************)
\* A request whose key has any bytes reaches the first statement of
\* set_key, get_key or delete_key.
CallHash(t, k) ==
    /\ Serving
    /\ pc[t] = "idle"
    /\ arg' = [arg EXCEPT ![t] = [op |-> "hash", key |-> k, value |-> <<>>]]
    /\ pc' = [pc EXCEPT ![t] = "hash"]
    /\ UNCHANGED <<mem, disk, ext, ptr, resp, pi, wf, boot, ghost>>

\* int shard_index = get_shard_index(key);
HashReturn(t) ==
    /\ pc[t] = "hash"
    /\ \E idx \in ShardIndexOf(arg[t].key) :
         resp' = [resp EXCEPT ![t] =
                    [NoResp EXCEPT !.op = "hash", !.key = arg[t].key, !.index = idx]]
    /\ pc' = [pc EXCEPT ![t] = "respond"]
    /\ UNCHANGED <<mem, disk, ext, arg, ptr, pi, wf, boot, ghost>>

(***************************************************************************)
(* Specifications                                                          *)
(***************************************************************************)
\* The steps of thread t in persist_to_disk and set_key, and the answer of
\* http_handler.
SetSteps(t) ==
    \/ PersistOpen(t) \/ PersistLock(t) \/ PersistWrite(t) \/ PersistClose(t)
    \/ SetLock(t) \/ SetMutate(t) \/ SetLog(t) \/ Replicate(t)
    \/ Respond(t)

\* The steps of thread t in get_key and delete_key.
ReadSteps(t) ==
    \/ GetLock(t) \/ GetScan(t) \/ GetDeref(t)
    \/ DeleteLock(t) \/ DeleteScan(t)

\* The steps of thread t that are not the start of a call.
Step(t) == SetSteps(t) \/ ReadSteps(t)

\* The start of a process that finds no kv_store.txt: load_from_disk returns
\* at once.
ColdBoot == LoadOpen \/ Start \/ BgCheck

\* The start of a process that may find a kv_store.txt.
Boot == ColdBoot \/ LoadScan

\* Spec: one client at a time, on keys of two shards of which one can be
\* filled; the timer of the persistence thread does not expire.
SeqWorkers == {"w1"}

Next ==
    \/ ColdBoot
    \/ \E t \in SeqWorkers \cup {MAIN, BG} : Step(t)
    \/ \E t \in SeqWorkers, k \in HttpKeys :
         \/ \E v \in HttpValues : CallSet(t, k, v)
         \/ CallGet(t, k)
         \/ CallDelete(t, k)

Spec == Init /\ [][Next]_vars

\* SpecDisk: one client at a time, the persistence thread, shutdown, and the
\* process killed at any point and started again.
DiskKeys == {<<97>>, <<98>>}

NextDisk ==
    \/ Boot \/ BgSleep \/ Stop \/ Join \/ Restart
    \/ \E t \in SeqWorkers \cup {MAIN, BG} : Step(t)
    \/ \E t \in SeqWorkers, k \in DiskKeys :
         \/ \E v \in HttpValues : CallSet(t, k, v)
         \/ CallGet(t, k)
         \/ CallDelete(t, k)

SpecDisk == Init /\ [][NextDisk]_vars

\* SpecConc: two clients at a time.  One sets and deletes keys that share a
\* shard, the other gets them; the timer of the persistence thread does not
\* expire.
ConcKeys == {<<97>>, <<100>>}

NextConc ==
    \/ ColdBoot
    \/ \E t \in Threads : Step(t)
    \/ \E k \in ConcKeys :
         \/ \E v \in HttpValues : CallSet("w1", k, v)
         \/ CallDelete("w1", k)
         \/ CallGet("w2", k)

SpecConc == Init /\ [][NextConc]_vars

\* SpecSets: two clients at a time that set keys of two shards, each its
\* own value, and the persistence thread.
SetsKeys == {<<97>>, <<98>>}
ValueOf(t) == IF t = "w1" THEN <<120>> ELSE <<121>>

NextSets ==
    \/ ColdBoot \/ BgSleep
    \/ \E t \in Threads : SetSteps(t)
    \/ \E t \in Workers, k \in SetsKeys : CallSet(t, k, ValueOf(t))

SpecSets == Init /\ [][NextSets]_vars

\* SpecApi: one caller at a time that passes set_key strings of any length.
ApiKeys == {<<97>>} \cup LongKeys
ApiValues == {<<120>>} \cup LongValues

NextApi ==
    \/ ColdBoot
    \/ \E t \in SeqWorkers \cup {MAIN, BG} : Step(t)
    \/ \E t \in SeqWorkers : SetAbort(t)
    \/ \E t \in SeqWorkers, k \in ApiKeys :
         \/ \E v \in ApiValues : CallSet(t, k, v)
         \/ CallGet(t, k)
         \/ CallDelete(t, k)

SpecApi == Init /\ [][NextApi]_vars

\* SpecHash: get_shard_index applied to keys of any bytes.
NextHash ==
    \/ ColdBoot
    \/ \E t \in Workers :
         \/ \E k \in ByteKeys : CallHash(t, k)
         \/ HashReturn(t)
         \/ Respond(t)

SpecHash == Init /\ [][NextHash]_vars

\* SpecLoad: the start of a process that finds a kv_store.txt, then one
\* client at a time.
NextLoad ==
    \/ Boot
    \/ \E t \in SeqWorkers \cup {MAIN} : Step(t)
    \/ \E t \in SeqWorkers, k \in DiskKeys :
         \/ \E v \in HttpValues : CallSet(t, k, v)
         \/ CallGet(t, k)
         \/ CallDelete(t, k)

SpecLoad == InitLoad /\ [][NextLoad]_vars

\* SpecMut: two clients at a time that set and delete keys of one shard,
\* each setting its own value.
NextMut ==
    \/ ColdBoot
    \/ \E t \in Threads : SetSteps(t) \/ DeleteLock(t) \/ DeleteScan(t)
    \/ \E t \in Workers, k \in ConcKeys :
         \/ CallSet(t, k, ValueOf(t))
         \/ CallDelete(t, k)

SpecMut == Init /\ [][NextMut]_vars

\* SpecIO: the persistence thread and one client that sets a key, while
\* the snapshot file stops and starts being writable.
IOKeys == {<<97>>}

NextIO ==
    \/ ColdBoot \/ BgSleep \/ Chmod
    \/ \E t \in SeqWorkers \cup {BG} : SetSteps(t)
    \/ \E t \in SeqWorkers, k \in IOKeys, v \in HttpValues : CallSet(t, k, v)

SpecIO == Init /\ [][NextIO]_vars

\* SpecRef: one client at a time on two keys of one shard.  A key-to-value
\* map of these requests never holds more keys of a shard than the shard has
\* slots.
RefKeys == {<<97>>, <<100>>}

NextRef ==
    \/ ColdBoot
    \/ \E t \in SeqWorkers : Step(t)
    \/ \E t \in SeqWorkers, k \in RefKeys :
         \/ \E v \in HttpValues : CallSet(t, k, v)
         \/ CallGet(t, k)
         \/ CallDelete(t, k)

SpecRef == Init /\ [][NextRef]_vars

\* SpecHist: one client at a time on two keys of one shard, and the process
\* killed at any point and started again; the timer of the persistence
\* thread does not expire.
NextHist ==
    \/ Boot \/ Restart
    \/ \E t \in SeqWorkers \cup {MAIN} : Step(t)
    \/ \E t \in SeqWorkers, k \in RefKeys :
         \/ \E v \in HttpValues : CallSet(t, k, v)
         \/ CallGet(t, k)
         \/ CallDelete(t, k)

SpecHist == Init /\ [][NextHist]_vars

\* SpecConv: one client that sets and deletes a key, and the persistence
\* thread with its timer, under a scheduler that is fair to the persistence
\* thread: sleep(10) returns, and the thread gets the processor and, again
\* and again, each shard lock it asks for.
ConvKeys == {<<97>>}

BgSteps ==
    \/ BgCheck \/ BgSleep
    \/ PersistOpen(BG) \/ PersistLock(BG) \/ PersistWrite(BG) \/ PersistClose(BG)

NextConv ==
    \/ ColdBoot \/ BgSleep
    \/ \E t \in SeqWorkers \cup {BG} : SetSteps(t)
    \/ \E t \in SeqWorkers : DeleteLock(t) \/ DeleteScan(t)
    \/ \E t \in SeqWorkers, k \in ConvKeys :
         \/ \E v \in HttpValues : CallSet(t, k, v)
         \/ CallDelete(t, k)

FairConv == SF_vars(BgSteps)

SpecConv == Init /\ [][NextConv]_vars /\ FairConv

\* SpecAudit: two clients at a time on two keys of one shard; both set,
\* and the second also gets and deletes.
NextAudit ==
    \/ ColdBoot
    \/ \E t \in Workers : Step(t)
    \/ \E k \in ConcKeys :
         \/ \E t \in Workers : CallSet(t, k, ValueOf(t))
         \/ CallGet("w2", k)
         \/ CallDelete("w2", k)

SpecAudit == Init /\ [][NextAudit]_vars

\* SpecCrash: the start of a process that finds a kv_store.txt, killed at
\* any point of the load and started again.
LoadSets ==
    \/ SetLock(MAIN) \/ SetMutate(MAIN) \/ SetLog(MAIN)
    \/ PersistOpen(MAIN) \/ PersistLock(MAIN) \/ PersistWrite(MAIN) \/ PersistClose(MAIN)
    \/ Replicate(MAIN)

NextCrash == Boot \/ Restart \/ LoadSets

SpecCrash == InitLoad /\ [][NextCrash]_vars

\* SpecLive: one client sets a key while another gets and deletes it, under
\* a fair scheduler.  The steps of a thread that need only the processor,
\* the local files and the shard locks are taken whenever they are possible
\* again and again (pthread mutexes are handed over; strong fairness stands
\* for that).  The return of system("curl ...") is not the scheduler's: it
\* waits for the follower, and no fairness is stated for it.
LiveKeys == {<<97>>}
LiveValues == {<<120>>}
Setter == "w1"
Reader == "w2"

LocalSteps(t) ==
    \/ PersistOpen(t) \/ PersistLock(t) \/ PersistWrite(t) \/ PersistClose(t)
    \/ SetLock(t) \/ SetMutate(t) \/ SetLog(t)
    \/ Respond(t)
    \/ ReadSteps(t)

NextLive ==
    \/ ColdBoot
    \/ \E t \in Workers : LocalSteps(t) \/ Replicate(t)
    \/ \E k \in LiveKeys :
         \/ \E v \in LiveValues : CallSet(Setter, k, v)
         \/ CallGet(Reader, k)
         \/ CallDelete(Reader, k)

FairLive == \A t \in Workers : SF_vars(LocalSteps(t))

SpecLive == Init /\ [][NextLive]_vars /\ FairLive

(***************************************************************************)
(* Properties                                                              *)
(***************************************************************************)
IsValue(x) == x \notin {NULL, DELETED, UNINIT, TORN}

\* The steps of set_key after it has released the lock of its shard.
AfterUnlock == {"p_open", "p_lock", "p_write", "p_close", "replicate"}

\* C1: a get_key(k) that follows a storing set_key(k, v), with no other
\* set_key or delete_key on k in between or under way, answers v; also when
\* the thread of the set is still in persist_to_disk or
\* replicate_to_followers.
C1_SetThenGet ==
    \A t \in Workers :
        (pc[t] = "respond" /\ resp[t].op = "get" /\ IsValue(resp[t].expect))
            => (resp[t].status = HTTP_OK /\ resp[t].out = resp[t].expect)

\* A get has answered v while the set_key that wrote v is past its unlock
\* and has not returned.
C1_Witness ==
    \E t \in Workers, u \in Workers :
        /\ pc[t] = "respond" /\ resp[t].op = "get" /\ IsValue(resp[t].expect)
        /\ resp[t].out = resp[t].expect
        /\ pc[u] \in AfterUnlock
        /\ arg[u] = [op |-> "set", key |-> resp[t].key, value |-> resp[t].out]

\* C2: a get_key(k) that follows a delete_key(k) answers NotFound, and one
\* that follows a later set_key(k, v2) answers v2, whatever was set and
\* deleted before.
C2_DeleteThenGet ==
    \A t \in Workers :
        (pc[t] = "respond" /\ resp[t].op = "get")
            => /\ resp[t].expect = DELETED => resp[t].status = HTTP_NOT_FOUND
               /\ IsValue(resp[t].expect) => resp[t].out = resp[t].expect

\* C3: no shard has two active slots with the same key.
C3_OneActivePerKey ==
    \A s \in Shards : \A i \in Slots, j \in Slots :
        (i # j /\ store[s][i].is_active # 0 /\ store[s][j].is_active # 0)
            => store[s][i].key # store[s][j].key

\* The shard of key k is full of active entries with distinct keys other
\* than k.
FullWithout(k) ==
    LET s == get_shard_index(k)
    IN  /\ \A i \in Slots : store[s][i].is_active # 0 /\ store[s][i].key # k
        /\ \A i \in Slots, j \in Slots : i # j => store[s][i].key # store[s][j].key

\* C5: a set_key of a new key on a full shard is answered with an error,
\* and the keys of the shard keep their values.
C5_CapacityReported ==
    \A t \in Workers :
        (pc[t] = "respond" /\ resp[t].op = "set" /\ FullWithout(resp[t].key))
            => /\ resp[t].status # HTTP_OK
               /\ \A i \in Slots :
                    LET e == store[get_shard_index(resp[t].key)][i]
                    IN  get_key(store, e.key) = e.value

\* C7: a delete_key(k) that follows a delete_key(k), with no set_key(k, _)
\* in between, finds nothing to change, and is answered without an error.
C7_DeleteIdempotent ==
    \A t \in Workers :
        (pc[t] = "respond" /\ resp[t].op = "delete" /\ resp[t].expect \in {NULL, DELETED})
            => (~resp[t].stored /\ resp[t].status = HTTP_OK)

\* C4: when the process stopped with the snapshot of a store that held
\* what the clients had set (and nothing was ever deleted), the store holds
\* the same after the restart and the load.
C4_RoundTrip ==
    (Serving /\ hist.fresh /\ hist.snap_ok /\ ~hist.dels)
        => \A k \in HttpKeys : get_key(store, k) = client[k]

Oversize(a) == ~(FitsKey(a.key) /\ FitsValue(a.value))

\* C6: a set_key with a key or a value over the limit is answered with an
\* error and has written no slot.
C6_OversizeRejected ==
    \A t \in Workers :
        (pc[t] = "respond" /\ resp[t].op = "set" /\ Oversize(arg[t]))
            => (resp[t].status # HTTP_OK /\ ~resp[t].stored)

\* C8: a thread in set_key(k1, _) never waits for a lock that a thread in
\* set_key(k2, _) holds when k1 and k2 are keys of different shards.
C8_NoCrossShardWait ==
    \A t \in Workers, u \in Workers :
        ~ /\ t # u
          /\ arg[t].op = "set" /\ arg[u].op = "set"
          /\ get_shard_index(arg[t].key) # get_shard_index(arg[u].key)
          /\ pc[t] \in {"set_lock", "p_lock"}
          /\ lock[IF pc[t] = "p_lock" THEN pi[t] ELSE get_shard_index(arg[t].key)] = u

\* C9: what the caller of get_key reads is the value the entry held while
\* get_key held the lock.
C9_GetReturnsCopy ==
    \A t \in Workers :
        (pc[t] = "respond" /\ resp[t].op = "get") => resp[t].out = resp[t].seen

\* C10: once a snapshot has been written, the file holds a complete
\* snapshot at every instant: its content changes only when a run of
\* persist_to_disk ends, and then to the whole output of that run.
C10_SnapshotComplete ==
    [][(file_exists /\ hist.snapped /\ file' # file)
        => \E t \in Threads :
             /\ pc[t] = "p_close" /\ pc'[t] # "p_close"
             /\ wf[t].off = 0 /\ file' = wf[t].buf]_vars

\* C11: the step of replicate_to_followers, whether the follower call
\* succeeds or fails, changes no slot, is made once (the thread goes on to
\* the return of set_key), and the set is answered as stored with 200.
C11_ReplicationBestEffort ==
    [][\A t \in Threads :
         (pc[t] = "replicate" /\ pc'[t] # "replicate")
            => /\ store' = store
               /\ pc'[t] = AfterSet(t)
               /\ t \in Workers => (resp'[t].status = HTTP_OK /\ resp'[t].stored)]_vars

\* A set whose follower call failed has been answered, and the key holds
\* the value that was set.
C11_Witness ==
    \E t \in Workers :
        /\ pc[t] = "respond" /\ resp[t].op = "set" /\ resp[t].repl = "failed"
        /\ resp[t].status = HTTP_OK
        /\ get_key(store, arg[t].key) = arg[t].value

\* C12: the thread that serves a set answers without first running
\* persist_to_disk or replicate_to_followers for it: a set call is never
\* inside one of them.
C12_SetDoesNotWait ==
    \A t \in Workers : arg[t].op = "set" => pc[t] \notin AfterUnlock

\* C13: the index get_shard_index returns for a key, whatever its bytes, is
\* one of 0 .. SHARD_COUNT - 1.
C13_ShardIndexInRange ==
    \A t \in Workers :
        (pc[t] = "respond" /\ resp[t].op = "hash") => resp[t].index \in Shards

\* C14: as long as there is no kv_store.txt and no set has been called,
\* the started process is past load_from_disk, going on to serve or
\* serving, and every slot of every shard is as at program start: inactive.
C14_MissingFileFreshStart ==
    (~file_exists /\ pc[MAIN] # "init" /\ \A t \in Workers : arg[t].op # "set")
        => (pc[MAIN] \in {"start", "getchar"} /\ store = ZeroStore)

\* The server is up after a start without a snapshot file, with nothing
\* loaded.
C14_Witness ==
    /\ Serving /\ hist.fresh /\ ~file_exists
    /\ \A sh \in Shards : \A i \in Slots : store[sh][i].is_active = 0

\* C15: when the load of a kv_store.txt has ended and the server is up,
\* every well-formed line of the file (the last one of its key) has been
\* replayed: its key holds its value, whatever malformed lines stand before
\* or after it.
C15_MalformedSkipped ==
    (Serving /\ hist.fresh)
        => \A n \in 1 .. Len(hist.lines) :
             LET L == hist.lines
             IN  (/\ Len(L[n]) = 2
                  /\ \A m \in (n + 1) .. Len(L) : Len(L[m]) = 2 => L[m][1] # L[n][1])
                     => get_key(store, L[n][1]) = L[n][2]

\* The first inactive slot of shard s, or -1.
FirstInactive(st, s) ==
    LET c == {i \in Slots : st[s][i].is_active = 0}
    IN  IF c = {} THEN -1 ELSE Min(c)

\* C16: a set_key that stores writes the slot where its key is active,
\* or, when the key has no active entry, the first inactive slot of the
\* shard, and changes nothing else.
C16_SetFrame ==
    [][\A t \in Workers :
         (pc[t] = "set_mutate" /\ pc'[t] = "set_log")
            => LET k == arg[t].key
                   s == get_shard_index(k)
                   j == FindActive(store, s, k)
               IN  store' = WriteSlot(store, s,
                                      IF j # -1 THEN j ELSE FirstInactive(store, s),
                                      k, arg[t].value)]_vars

\* The steps of set_key and delete_key between the lock and the unlock that
\* scan and change the slots.
Mutating == {"set_mutate", "del_scan"}

\* C17: a thread between the lock and the unlock of set_key or delete_key
\* is the holder of the lock of its shard, and the slots of a shard change
\* only in a step of the thread that holds the lock of that shard.
C17_MutateUnderLock ==
    /\ [](\A t \in Threads :
            pc[t] \in Mutating => lock[get_shard_index(arg[t].key)] = t)
    /\ [][\A s \in Shards :
            store'[s] # store[s]
               => \E t \in Threads :
                    /\ lock[s] = t
                    /\ pc[t] \in Mutating /\ pc'[t] # pc[t]
                    /\ get_shard_index(arg[t].key) = s]_vars

\* One thread is between lock and unlock of a set or delete while another
\* thread, in a set or delete on the same shard, waits for the lock.
C17_Witness ==
    \E t \in Workers, u \in Workers :
        /\ t # u
        /\ pc[t] \in Mutating /\ pc[u] \in {"set_lock", "del_lock"}
        /\ get_shard_index(arg[t].key) = get_shard_index(arg[u].key)
        /\ lock[get_shard_index(arg[t].key)] = t

\* C18: a thread that appends to the audit log (log_operation) holds no
\* shard lock.
C18_NoIOUnderLock ==
    \A t \in Threads : pc[t] = "set_log" => \A s \in Shards : lock[s] # t

\* C19: a step of persist_to_disk in which bytes reach the snapshot file is
\* made by a thread that does not hold the lock of the shard it is copying.
C19_PersistWritesUnlocked ==
    [][\A t \in Threads :
         (pc[t] = "p_write" /\ pc'[t] # "p_write" /\ file' # file)
            => lock[pi[t]] # t]_vars

\* The steps of persist_to_disk between fopen and fclose.
FileOpen == {"p_lock", "p_write", "p_close"}

\* C20: at most one thread has the snapshot file open for writing.
C20_SingleWriter ==
    Cardinality({t \in Threads : pc[t] \in FileOpen}) <= 1

\* C21: a thread of a set that is at the audit append, at the start of
\* persist_to_disk or at the replication call holds no shard lock; and a
\* set_key that finds no slot leaves the audit log, the snapshot file and
\* the follower alone.
C21_SetOrder ==
    /\ [](\A t \in Threads :
            (arg[t].op = "set" /\ pc[t] \in {"set_log", "p_open", "replicate"})
               => \A s \in Shards : lock[s] # t)
    /\ [][\A t \in Threads :
            (pc[t] = "set_mutate" /\ pc'[t] \notin {"set_mutate", "set_log"})
               => (log' = log /\ repl' = repl /\ file' = file)]_vars

\* Where main is from its start to the end of init_kv_store's load.
LoadSteps ==
    {"init", "ld_scan", "set_lock", "set_mutate", "set_log",
     "p_open", "p_lock", "p_write", "p_close", "replicate", "start"}

\* C22: as long as main has not finished load_from_disk, the persistence
\* thread and the connection threads do not exist and no request is under
\* way.
C22_LoadBeforeServe ==
    pc[MAIN] \in LoadSteps
        => \A t \in Threads \ {MAIN} : pc[t] = "none" /\ arg[t] = NoArg

\* main is writing the snapshot for an entry it is loading, alone.
C22_Witness ==
    /\ pc[MAIN] = "p_write" /\ arg[MAIN].op = "set"
    /\ \E s \in Shards, i \in Slots : store[s][i].is_active # 0
    /\ \A t \in Threads \ {MAIN} : pc[t] = "none"

Last(q) == q[Len(q)]

LinesOf(f, p) ==
    Cardinality({n \in 1 .. (Len(f) \div 2) : <<f[2 * n - 1], f[2 * n]>> = p})
EntriesOf(st, p) ==
    Cardinality({e \in Shards \X Slots :
                   /\ st[e[1]][e[2]].is_active # 0
                   /\ <<st[e[1]][e[2]].key, st[e[1]][e[2]].value>> = p})
PairsIn(f, st) ==
    {<<f[2 * n - 1], f[2 * n]>> : n \in 1 .. (Len(f) \div 2)}
        \cup {<<st[e[1]][e[2]].key, st[e[1]][e[2]].value>> : e \in Shards \X Slots}

\* C24: when a run of persist_to_disk that nothing ran beside has ended,
\* the file consists of "key value" lines, as many for each pair as there
\* are active entries with that pair: one line per active entry, none for
\* an inactive slot.
C24_SnapshotLines ==
    \A t \in Workers :
        pc[t] = "replicate"
            => /\ file_exists /\ Len(file) % 2 = 0
               /\ \A p \in PairsIn(file, store) : LinesOf(file, p) = EntriesOf(store, p)

\* A run has ended on a store that holds an active entry and a tombstone.
C24_Witness ==
    \E t \in Workers :
        /\ pc[t] = "replicate" /\ file # <<>>
        /\ \E e \in Shards \X Slots :
             store[e[1]][e[2]].is_active = 0 /\ store[e[1]][e[2]].key # <<>>
        /\ \A p \in PairsIn(file, store) : LinesOf(file, p) = EntriesOf(store, p)

\* C25: a persist_to_disk whose fopen fails changes neither the shards
\* nor the file nor any lock, holds no lock, and returns to its caller:
\* every other thread goes on, and the persistence thread goes back to
\* its loop, from where the next cycle calls persist_to_disk again.
C25_OpenFailure ==
    [][\A t \in Threads :
         (pc[t] = "p_open" /\ pc'[t] # "p_open" /\ ~writable)
            => /\ store' = store /\ lock' = lock /\ file' = file
               /\ \A s \in Shards : lock[s] # t
               /\ pc'[t] = AfterPersist(t)
               /\ \A u \in Threads \ {t} : pc'[u] = pc[u]
               /\ running' = running]_vars

\* After a failed fopen the persistence thread has the file open again.
C25_Witness ==
    /\ hist.open_failed
    /\ pc[BG] \in {"p_lock", "p_write", "p_close"}
    /\ \E s \in Shards, i \in Slots : store[s][i].is_active # 0

\* C26: a delete_key that finds an active entry with the key clears the
\* flag of that slot and nothing else: the slot keeps its key and value,
\* every other slot of every shard is as before (no entry moves), and the
\* cleared slot passes the slot test of set_key for every key, so that a
\* set finds a slot at that index or before it.
C26_DeleteFrame ==
    [][\A t \in Workers :
         (pc[t] = "del_scan" /\ pc'[t] = "respond"
            /\ \E i \in Slots : /\ store[get_shard_index(arg[t].key)][i].is_active # 0
                                /\ store[get_shard_index(arg[t].key)][i].key = arg[t].key)
            => \E i \in Slots :
                 LET s == get_shard_index(arg[t].key)
                 IN  /\ store[s][i].is_active # 0
                     /\ store[s][i].key = arg[t].key
                     /\ store'[s][i].is_active = 0
                     /\ store'[s][i].key = store[s][i].key
                     /\ store'[s][i].value = store[s][i].value
                     /\ \A s2 \in Shards, j \in Slots :
                           (s2 # s \/ j # i) => store'[s2][j] = store[s2][j]
                     /\ \A k2 \in HttpKeys :
                           \E j \in 0..i :
                              /\ store'[s][j].is_active = 0 \/ store'[s][j].key = k2
                              /\ SetIndex(store', s, k2) = j]_vars

\* A delete has just cleared slot 0 of a shard whose slot 1 holds an
\* active entry: the entry is still in slot 1.
C26_Witness ==
    \E t \in Workers :
        /\ pc[t] = "respond" /\ resp[t].op = "delete" /\ resp[t].stored
        /\ LET s == get_shard_index(resp[t].key)
           IN  /\ store[s][0].is_active = 0 /\ store[s][0].key = resp[t].key
               /\ store[s][1].is_active # 0 /\ store[s][1].key # resp[t].key

\* C27: when main has returned (the server stopped, running cleared, the
\* persistence thread joined), the snapshot file holds exactly the active
\* entries of the store.
C27_ShutdownFlush ==
    pc[MAIN] = "exit"
        => (IF file_exists THEN file ELSE <<>>) = Snapshot(store)

InOperation == {"set_mutate", "get_scan", "del_scan"}

\* The part of C28 about the lock: a thread that holds a shard lock inside
\* set_key, get_key or delete_key releases it.
LocksReleased ==
    \A t \in Workers, s \in Shards :
        (lock[s] = t /\ pc[t] \in InOperation) ~> (lock[s] # t)

\* C28: under fair scheduling, a set, get or delete that has acquired its
\* shard lock eventually releases the lock and returns to http_handler.
C28_OperationsComplete ==
    \A t \in Workers :
        /\ \A s \in Shards :
              (lock[s] = t /\ pc[t] \in InOperation) ~> (lock[s] # t)
        /\ (pc[t] \in InOperation) ~> (pc[t] = "respond")

\* C29: between two requests, get_key finds for every key what a
\* key-to-value map holds after the same sets and deletes: the last value
\* set if the key was not deleted since, nothing otherwise.
C29_RefinesMap ==
    (Serving /\ \A t \in Workers : pc[t] = "idle")
        => \A k \in RefKeys : get_key(store, k) = client[k]

\* The keys of the lines of a snapshot file are all different.
NoKeyTwice(f) ==
    \A i \in 1 .. (Len(f) \div 2), j \in 1 .. (Len(f) \div 2) :
        i # j => f[2 * i - 1] # f[2 * j - 1]

\* C30: whatever was set and deleted before, when the process stopped with
\* a complete snapshot of a store that answered as the clients expected,
\* it answers the same after the restart and the load; and a complete
\* snapshot written with no request in progress has no key on two lines.
C30_RestartEquivalence ==
    /\ (Serving /\ hist.fresh /\ hist.snap_ok)
          => \A k \in HttpKeys : get_key(store, k) = client[k]
    /\ (Serving /\ file_exists /\ file = Snapshot(store)
           /\ \A t \in Workers : pc[t] = "idle")
          => NoKeyTwice(file)

\* C31: between two requests, a key whose last request was a delete (or
\* that was never set) is not found by get_key, also after the process
\* was killed and started again.
C31_DeletedStaysDeleted ==
    (Serving /\ \A t \in Workers : pc[t] = "idle")
        => \A k \in DiskKeys : client[k] = NULL => get_key(store, k) = NULL

\* No request is in progress.
Quiet == \A t \in Workers : pc[t] = "idle"

\* The file is what one undisturbed run of persist_to_disk writes now.
FileIsSnapshot == file_exists /\ file = Snapshot(store)

\* The part of C32 that leaves the runs themselves aside: once the
\* requests have stopped, the file is the snapshot of the store from some
\* moment on whenever the persistence thread is between two runs.
ConvergesBetweenRuns ==
    (<>[]Quiet) => <>[](pc[BG] \in {"bg_check", "bg_sleep"} => FileIsSnapshot)

\* C32: once the requests have stopped, the snapshot file eventually holds
\* exactly the active entries of the store and holds them from then on.
C32_SnapshotConverges ==
    (<>[]Quiet) => <>[]FileIsSnapshot

\* C33: the calls to the follower are made in the order of the writes:
\* when no request is in progress, the last call made to the follower
\* carries, for its key, the value the store holds (no key is deleted in
\* SpecSets, and every set finds a slot).
C33_ReplicationOrder ==
    (Quiet /\ repl # <<>>)
        => get_key(store, Last(repl)[1]) = Last(repl)[2]

\* The keys of the lines of a snapshot file.
FileKeys(f) == {f[2 * i - 1] : i \in 1 .. (Len(f) \div 2)}

\* C34: no step of a delete request, from the call of delete_key to its
\* return, changes the audit log, the calls made to the follower or the
\* snapshot file; when a delete that found its key has returned, the
\* snapshot file still has a line for the key.
C34_DeleteOnlyInMemory ==
    /\ [](\A t \in Workers :
             (pc[t] = "respond" /\ resp[t].op = "delete" /\ resp[t].stored)
                => (file_exists /\ resp[t].key \in FileKeys(file)))
    /\ [][\A t \in Workers :
             (pc'[t] # pc[t]
                /\ (pc[t] \in {"del_lock", "del_scan"} \/ pc'[t] \in {"del_lock", "del_scan"}))
                => (log' = log /\ repl' = repl /\ file' = file
                      /\ file_exists' = file_exists)]_vars

\* A delete has removed the key from the store; the file still has its
\* line and the last call made to the follower was the set of the key.
C34_Witness ==
    \E t \in Workers :
        /\ pc[t] = "respond" /\ resp[t].op = "delete" /\ resp[t].stored
        /\ get_key(store, resp[t].key) = NULL
        /\ resp[t].key \in FileKeys(file)
        /\ repl # <<>> /\ Last(repl)[1] = resp[t].key

HasPair(q, p) ==
    \E i \in 1 .. (Len(q) \div 2) : q[2 * i - 1] = p[1] /\ q[2 * i] = p[2]

\* What the running load has yet to read: the rest of its stdio buffer and
\* the file from its descriptor's offset on.
ToBeRead ==
    IF rd.eof THEN rd.buf
    ELSE rd.buf \o SubSeq(file, rd.off + 1, Len(file))

\* main is in init_kv_store, before pthread_create.
Loading == pc[MAIN] \in LoadSteps \ {"start"}

\* C36: at every point of the load of a file of well-formed lines, also
\* at the start of the process that follows a kill in the middle of the
\* load, every line the file had at the first start is in the file, or is
\* yet to be read by the running load, or is the pair that load is
\* passing to set_key.
C36_LoadKeepsData ==
    (Loading /\ \A n \in 1 .. Len(hist.lines) : Len(hist.lines[n]) = 2)
        => \A n \in 1 .. Len(hist.lines) :
             LET p == hist.lines[n]
             IN  \/ HasPair(file, p)
                 \/ HasPair(ToBeRead, p)
                 \/ arg[MAIN] = [op |-> "set", key |-> p[1], value |-> p[2]]

\* C37: every active entry is in the shard whose index get_shard_index
\* gives for the key the entry holds.
C37_EntryInItsShard ==
    \A s \in Shards, i \in Slots :
        store[s][i].is_active # 0 => get_shard_index(store[s][i].key) = s

\* Where a thread is between a pthread_mutex_lock and the unlock that
\* follows it, and where it is about to call pthread_mutex_lock.
HoldingSteps == {"set_mutate", "set_log", "get_scan", "del_scan", "p_write"}
WaitingSteps == {"set_lock", "get_lock", "del_lock", "p_lock"}

\* The shard whose lock thread t is about to ask for.
Wanted(t) == IF pc[t] = "p_lock" THEN pi[t] ELSE get_shard_index(arg[t].key)

\* C38: a thread holds at most one shard lock, and none outside the
\* stretch between a lock and its unlock (so none when set_key, get_key,
\* delete_key or persist_to_disk has returned); hence the holder of a lock
\* another thread waits for is never itself waiting, and no set of threads
\* wait for each other.
C38_LockDiscipline ==
    /\ \A t \in Threads :
          /\ Cardinality({s \in Shards : lock[s] = t}) <= 1
          /\ pc[t] \notin HoldingSteps => \A s \in Shards : lock[s] # t
    /\ \A t \in Threads :
          (pc[t] \in WaitingSteps /\ lock[Wanted(t)] # NoThread)
             => pc[lock[Wanted(t)]] \in HoldingSteps

\* A persistence run waits for the lock of a shard that a request holds.
C38_Witness ==
    \E t \in Threads, u \in Threads :
        /\ t # u
        /\ pc[t] = "p_lock" /\ lock[pi[t]] = u
        /\ pc[u] \in {"get_scan", "del_scan", "set_mutate"}

====
